---------------------------- MODULE Spec2Model ----------------------------
(***************************************************************************)
(* Model of the chunked file cipher (EncryptFile / DecryptFile with its    *)
(* FileCleanup registry) and of the Range handling of StreamVideo of the   *)
(* secure video streaming API.                                             *)
(*                                                                         *)
(* Files are sequences of small integers.  The block size, the nonce size  *)
(* and the GCM overhead are scaled down; AES-GCM is modelled as an ideal   *)
(* authenticated cipher: a keystream that depends on (key, nonce, offset   *)
(* in the block) and a tag that is an injective function of                *)
(* (key, nonce, plaintext block).                                          *)
(***************************************************************************)
EXTENDS Integers, Sequences, FiniteSets, TLC

\* ------------------------------------------------------------------ bounds
\* Longest plaintext file of the model, in bytes.
MaxLen == 5
\* EncryptFile / DecryptFile calls in one behaviour.
MaxCalls == 2
\* Injected I/O failures in one behaviour.
MaxFaults == 1

\* ------------------------------------------------- program constants (scaled)
\* The values of a byte, 256 in the source; byte values are 0 .. ByteMod-1.
ByteMod == 2
\* chunkSize, 64 * 1024 in the source; 2 bytes here.
chunkSize == 2
\* gcm.NonceSize(), 12 in the source; 2 bytes here.
NonceSize == 2
\* gcm.Overhead(), 16 in the source; 1 tag symbol here.
Overhead == 1
\* The key length both functions require.
KeyLen == 32

Bytes == 0 .. (ByteMod - 1)

SeqsUpTo(S, n) == UNION {[1..k -> S] : k \in 0..n}

\* The plaintext files of the model: for every length up to MaxLen and every
\* first byte, the file whose bytes count up from it.
Plaintexts ==
    {[i \in 1..n |-> (i + c) % ByteMod] : n \in 0..MaxLen, c \in Bytes}

Nonces == [1..NonceSize -> Bytes]

\* Two 32-byte keys and one key of the wrong length.
Key1 == [id |-> 0, len |-> 32]
Key2 == [id |-> 1, len |-> 32]
KeyShort == [id |-> 0, len |-> 16]
Keys == {Key1, Key2, KeyShort}

\* ------------------------------------------------------------------- paths
\* A path is the sequence of its components; the root is the component "/".
Cwd == <<"/">>
TmpDir == <<"/", "tmp">>
PlainPath == <<"/", "storage", "v.mp4">>
EncPath == <<"/", "encrypted", "v.mp4.enc">>
OutPath == <<"/", "tmp", "secure-video", "s.mp4">>
\* The first tempPath of StreamVideo, which is never created.
FirstTempPath == <<"/", "tmp", "u.mp4">>
RelPlainPath == <<"storage", "v.mp4">>
RelEncPath == <<"encrypted", "v.mp4.enc">>
RelOutPath == <<"tmp", "secure-video", "s.mp4">>

TempNames(prefix) ==
    IF prefix = "encrypt-" THEN {"encrypt-1", "encrypt-2"}
                           ELSE {"decrypt-1", "decrypt-2"}

TempPaths == {TmpDir \o <<n>> : n \in TempNames("encrypt-") \cup TempNames("decrypt-")}

AllPaths == {PlainPath, EncPath, OutPath, FirstTempPath} \cup TempPaths

\* The calls of the model, <<inputPath, outputPath, key>>: the upload encrypts
\* the stored file under the process key, playback decrypts it to a scratch
\* file; a call may come with a relative path or with a key of the wrong
\* length, and a decryption with another 32-byte key.
EncryptCalls ==
    {<<PlainPath, EncPath, Key1>>, <<PlainPath, EncPath, KeyShort>>,
     <<RelPlainPath, EncPath, Key1>>, <<PlainPath, RelEncPath, Key1>>}

DecryptCalls ==
    {<<EncPath, OutPath, Key1>>, <<EncPath, OutPath, Key2>>,
     <<EncPath, OutPath, KeyShort>>,
     <<RelEncPath, OutPath, Key1>>, <<EncPath, RelOutPath, Key1>>}

\* filepath.IsAbs on a Unix path.
IsAbs(p) == Len(p) > 0 /\ p[1] = "/"

\* The file a path names: a relative path is taken from the working directory.
Resolve(p) == IF IsAbs(p) THEN p ELSE Cwd \o p

\* filepath.Dir of a resolved path.
Dir(p) == SubSeq(p, 1, Len(p) - 1)

\* The directories os.MkdirAll(d) makes sure exist.
MkdirAll(d) == {SubSeq(d, 1, k) : k \in 1..Len(d)}

\* ------------------------------------------------------------------- files
\* Permissions are the three octal digits of the mode.
Perm0644 == <<6, 4, 4>>
Perm0600 == <<6, 0, 0>>
Perm0200 == <<2, 0, 0>>
PermNone == <<0, 0, 0>>

NoFile == [exists |-> FALSE, data |-> <<>>, perm |-> PermNone]

NewFile(data, perm) == [exists |-> TRUE, data |-> data, perm |-> perm]

\* filePerm & 0444 == 0444
AllReadable(perm) == \A i \in 1..3 : (perm[i] \div 4) % 2 = 1

\* The owner may read the file.
OwnerReadable(perm) == (perm[1] \div 4) % 2 = 1

\* ------------------------------------------------------------------ cipher
RECURSIVE Encode(_)
\* An injective numbering of byte sequences.
Encode(s) ==
    IF s = <<>> THEN 0
    ELSE (s[1] + 1) + (ByteMod + 1) * Encode(Tail(s))

RECURSIVE SumSeq(_)
SumSeq(s) == IF s = <<>> THEN 0 ELSE s[1] + SumSeq(Tail(s))

\* The keystream byte at offset i of a block sealed under (key, nonce): the
\* counter of the mode restarts with every Seal call.
KeyStream(key, nonce, i) == (key.id + SumSeq(nonce) + i) % ByteMod

\* The authentication tag: Overhead symbols, none of them a byte value, that
\* determine key, nonce and plaintext.
TagOf(key, nonce, pt) ==
    [j \in 1..Overhead |->
        ByteMod + Overhead * Encode(<<key.id>> \o nonce \o pt) + (j - 1)]

\* gcm.Seal(nil, nonce, pt, nil)
Seal(key, nonce, pt) ==
    [i \in 1..Len(pt) |-> (pt[i] + KeyStream(key, nonce, i)) % ByteMod]
        \o TagOf(key, nonce, pt)

RECURSIVE SealedBlocks(_, _, _)
\* The ciphertext blocks of a plaintext cut into blocks of chunkSize bytes.
SealedBlocks(key, nonce, pt) ==
    IF pt = <<>> THEN <<>>
    ELSE LET n == IF Len(pt) < chunkSize THEN Len(pt) ELSE chunkSize
         IN  Seal(key, nonce, SubSeq(pt, 1, n))
                \o SealedBlocks(key, nonce, SubSeq(pt, n + 1, Len(pt)))

\* The complete encrypted file: the nonce and every ciphertext block.
CompleteOutput(key, nonce, pt) == nonce \o SealedBlocks(key, nonce, pt)

OpenFail == [ok |-> FALSE, pt |-> <<>>]

\* gcm.Open(nil, nonce, ct, nil): the plaintext, or an authentication error.
Open(key, nonce, ct) ==
    IF Len(ct) < Overhead THEN OpenFail
    ELSE LET n == Len(ct) - Overhead
             body == SubSeq(ct, 1, n)
         IN  IF \E i \in 1..n : body[i] \notin Bytes THEN OpenFail
             ELSE LET pt == [i \in 1..n |->
                               (body[i] + ByteMod - KeyStream(key, nonce, i)) % ByteMod]
                  IN  IF SubSeq(ct, n + 1, Len(ct)) = TagOf(key, nonce, pt)
                      THEN [ok |-> TRUE, pt |-> pt]
                      ELSE OpenFail

\* f.Read(buf) on a regular file: the bytes from the offset, at most len(buf).
ReadCount(avail, want) == IF avail < want THEN avail ELSE want

ReadAt(data, off, want) ==
    SubSeq(data, off + 1, off + ReadCount(Len(data) - off, want))

\* ------------------------------------------------------------------- state
VARIABLES
    fs,          \* path -> file
    dirs,        \* the directories that exist
    frame,       \* the running call: its arguments, locals and position
    touched,     \* the file system calls the running call has made
    faults,      \* injected I/O failures so far
    calls,       \* calls started so far
    sealCount,   \* <<key id, nonce>> -> number of Seal calls made with it
    origin,      \* path -> what the file there was made from
    hist,        \* what the running call has observed
    stream,      \* the request that is being served
    db,          \* the ids of the videos that have a metadata record
    log,         \* what the handlers have logged
    conc         \* the operations that run concurrently, and their files

vars ==
    <<fs, dirs, frame, touched, faults, calls, sealCount, origin, hist, stream,
      db, log, conc>>

NoOrigin == [kind |-> "none", pt |-> <<>>, kid |-> 0, tampered |-> FALSE]

IdleFrame ==
    [pc |-> "idle", op |-> "none", inputPath |-> <<>>, outputPath |-> <<>>,
     key |-> Key1, tempOutput |-> <<>>, paths |-> <<>>, inOff |-> 0,
     nonce |-> <<>>, result |-> "none"]

\* No request.  (rawCreated: the upload handler has created its raw file.)
NoStream ==
    [pc |-> "none", header |-> <<>>, req |-> [kind |-> "none", a |-> 0, b |-> 0],
     body |-> <<>>, status |-> 0, contentRange |-> <<>>, contentLength |-> <<>>,
     off |-> 0, left |-> 0, sent |-> <<>>, clientGone |-> FALSE,
     lateWrites |-> 0, deferred |-> <<>>, unlinkErr |-> FALSE,
     rawCreated |-> FALSE]

\* Operations that run at the same time.
MaxOps == 2

ConcOps == 1..MaxOps

\* The random suffixes of os.CreateTemp.
TempSuffixes == 1..MaxOps

\* The paths of the concurrent operations, <<directory or prefix, name>>: the
\* two temp paths of a playback request and the encrypted file of an upload,
\* whose names are uuids, and the staged files of EncryptFile and DecryptFile.
\* uuid.New() is taken to return a value that no other call returns, so a
\* path with a uuid is named after the operation that drew it.
ConcPaths ==
    ({"first", "scratch", "out"} \X ConcOps)
        \cup ({"encrypt-", "decrypt-"} \X TempSuffixes)

IdleOp ==
    [kind |-> "none", pc |-> "idle", dest |-> <<>>, tempOutput |-> <<>>,
     paths |-> <<>>, deferred |-> <<>>, using |-> {}]

\* No concurrent operation has started, and none has a file.
NoConc ==
    [ops |-> [i \in ConcOps |-> IdleOp], files |-> [q \in ConcPaths |-> 0],
     stolen |-> FALSE]

NoHist ==
    [destAtStart |-> NoFile, inAtStart |-> NoFile, inOrigin |-> NoOrigin,
     registered |-> {}, created |-> {}, committed |-> <<>>, faulted |-> FALSE,
     blocks |-> 0, sizes |-> <<>>]

\* The stored upload is any plaintext; the scratch file of a playback is the
\* empty file the handler has made before it decrypts.
Init ==
    /\ \E p \in Plaintexts :
          /\ fs = [q \in AllPaths |->
                     IF q = PlainPath THEN NewFile(p, Perm0200)
                     ELSE IF q = OutPath THEN NewFile(<<>>, Perm0644) ELSE NoFile]
          /\ origin = [q \in AllPaths |->
                     IF q = PlainPath
                     THEN [kind |-> "plain", pt |-> p, kid |-> 0, tampered |-> FALSE]
                     ELSE NoOrigin]
    /\ dirs = MkdirAll(Dir(OutPath)) \cup MkdirAll(Dir(PlainPath))
    /\ frame = IdleFrame
    /\ touched = {}
    /\ faults = 0
    /\ calls = 0
    /\ sealCount = [kn \in {0, 1} \X Nonces |-> 0]
    /\ hist = NoHist
    /\ stream = NoStream
    /\ db = {}
    /\ log = {}
    /\ conc = NoConc

\* The outcomes of a step that makes the system calls in `kinds`: all succeed,
\* or one of them fails (while the budget of injected failures lasts).
Outcomes(kinds) == {"ok"} \cup (IF faults < MaxFaults THEN kinds ELSE {})

Faulted(outcome) == outcome # "ok"

Charge(outcome) == faults' = IF Faulted(outcome) THEN faults + 1 ELSE faults

NoteFault(h, outcome) == [h EXCEPT !.faulted = @ \/ Faulted(outcome)]

\* `return fmt.Errorf(...)`: the call ends with an error; its deferred calls run
\* next.
Fail(err) == [frame EXCEPT !.pc = "defer", !.result = err]

Idle == frame.pc \in {"idle", "done"}

RangeOf(s) == {s[i] : i \in 1..Len(s)}

\* --------------------------------------------------------------- FileCleanup
\* Mutant of Add: the path is not registered.
AddForgotten(paths, path) == paths

\* fc.Add(path)
Add(paths, path) == Append(paths, path)

\* Mutant of Cleanup: nothing is removed.
CleanupNothing(paths, files) == files

\* fc.Cleanup(): os.Remove of every registered path; a path that does not
\* exist is skipped.
Cleanup(paths, files) ==
    [q \in AllPaths |-> IF q \in RangeOf(paths) THEN NoFile ELSE files[q]]

RECURSIVE RemoveFirst(_, _)
\* The loop that drops the committed path from cleanup.paths.
RemoveFirst(paths, path) ==
    IF paths = <<>> THEN <<>>
    ELSE IF Head(paths) = path THEN Tail(paths)
    ELSE <<Head(paths)>> \o RemoveFirst(Tail(paths), path)

\* ------------------------------------------------------------ createTempFile
\* createTempFile(prefix): MkdirAll of the temp directory, CreateTemp under a
\* name that is free, Chmod 0644 (the file is removed again when Chmod fails).
\* On success the caller registers the path and goes on at `next`.
CreateTempFile(prefix, next) ==
    \E outcome \in Outcomes({"mkdir", "create", "chmod"}), n \in TempNames(prefix) :
        LET tmpPath == TmpDir \o <<n>> IN
        /\ ~fs[tmpPath].exists
        /\ Charge(outcome)
        /\ dirs' = dirs \cup MkdirAll(TmpDir)
        /\ UNCHANGED <<calls, sealCount, origin, stream, db, log, conc>>
        /\ CASE outcome = "mkdir" ->
                  /\ touched' = touched \cup {"MkdirAll"}
                  /\ frame' = Fail("io_error")
                  /\ hist' = NoteFault(hist, outcome)
                  /\ UNCHANGED fs
             [] outcome = "create" ->
                  /\ touched' = touched \cup {"MkdirAll", "CreateTemp"}
                  /\ frame' = Fail("io_error")
                  /\ hist' = NoteFault(hist, outcome)
                  /\ UNCHANGED fs
             [] outcome = "chmod" ->
                  /\ touched' = touched \cup {"MkdirAll", "CreateTemp", "Chmod", "Remove"}
                  /\ frame' = Fail("io_error")
                  /\ hist' = [NoteFault(hist, outcome) EXCEPT !.created = @ \cup {tmpPath}]
                  /\ UNCHANGED fs
             [] outcome = "ok" ->
                  /\ touched' = touched \cup {"MkdirAll", "CreateTemp", "Chmod"}
                  /\ fs' = [fs EXCEPT ![tmpPath] = NewFile(<<>>, Perm0644)]
                  /\ frame' = [frame EXCEPT !.tempOutput = tmpPath,
                                            !.paths = Add(@, tmpPath),
                                            !.pc = next]
                  /\ hist' = [hist EXCEPT !.created = @ \cup {tmpPath},
                                          !.registered = @ \cup {tmpPath}]

\* ------------------------------------------------ validateFileAndPermissions
\* Does validateFileAndPermissions(path, false) have to chmod the file?
NeedsChmod(path) ==
    LET r == Resolve(path) IN fs[r].exists /\ ~AllReadable(fs[r].perm)

\* validateFileAndPermissions(path, isOutput): MkdirAll of the directory; for
\* an input, the file must exist and is made readable.  Directories are made
\* with mode 0755, so the directory chmod is never needed.
ValidateFileAndPermissions(path, isOutput, next) ==
    \E outcome \in Outcomes({"mkdir"} \cup
                     (IF ~isOutput /\ NeedsChmod(path) THEN {"chmod"} ELSE {})) :
        LET r == Resolve(path) IN
        /\ Charge(outcome)
        /\ hist' = NoteFault(hist, outcome)
        /\ UNCHANGED <<calls, sealCount, origin, stream, db, log, conc>>
        /\ IF outcome = "mkdir"
           THEN /\ touched' = touched \cup {"MkdirAll"}
                /\ frame' = Fail("io_error")
                /\ UNCHANGED <<fs, dirs>>
           ELSE /\ dirs' = dirs \cup MkdirAll(Dir(r))
                /\ IF isOutput
                   THEN /\ touched' = touched \cup {"MkdirAll"}
                        /\ frame' = [frame EXCEPT !.pc = next]
                        /\ UNCHANGED fs
                   ELSE IF ~fs[r].exists
                   THEN /\ touched' = touched \cup {"MkdirAll"}
                        /\ frame' = Fail("io_error")
                        /\ UNCHANGED fs
                   ELSE IF ~NeedsChmod(path)
                   THEN /\ touched' = touched \cup {"MkdirAll"}
                        /\ frame' = [frame EXCEPT !.pc = next]
                        /\ UNCHANGED fs
                   ELSE IF outcome = "chmod"
                   THEN /\ touched' = touched \cup {"MkdirAll", "Chmod"}
                        /\ frame' = Fail("io_error")
                        /\ UNCHANGED fs
                   ELSE /\ touched' = touched \cup {"MkdirAll", "Chmod"}
                        /\ fs' = [fs EXCEPT ![r].perm = Perm0644]
                        /\ frame' = [frame EXCEPT !.pc = next]

\* os.OpenFile(inputPath, os.O_RDONLY, 0644)
OpenInput(next) ==
    \E outcome \in Outcomes({"open"}) :
        LET r == Resolve(frame.inputPath) IN
        /\ Charge(outcome)
        /\ hist' = NoteFault(hist, outcome)
        /\ frame' = IF outcome = "ok" /\ fs[r].exists /\ OwnerReadable(fs[r].perm)
                    THEN [frame EXCEPT !.pc = next, !.inOff = 0]
                    ELSE Fail("io_error")
        /\ UNCHANGED <<fs, dirs, touched, calls, sealCount, origin, stream, db, log, conc>>

\* Mutant of WriteTarget: the output is written in place.
WriteTargetDirect(f) == Resolve(f.outputPath)

\* The file the output is written to: the staged temporary file.
WriteTarget(f) == f.tempOutput

\* os.OpenFile(tempOutput, O_WRONLY|O_CREATE|O_TRUNC, 0644)
OpenOutput(next) ==
    \E outcome \in Outcomes({"open"}) :
        /\ Charge(outcome)
        /\ hist' = NoteFault(hist, outcome)
        /\ UNCHANGED <<dirs, calls, sealCount, origin, stream, db, log, conc>>
        /\ IF outcome = "ok"
           THEN /\ fs' = [fs EXCEPT ![WriteTarget(frame)] =
                            IF @.exists THEN [@ EXCEPT !.data = <<>>]
                                        ELSE NewFile(<<>>, Perm0644)]
                /\ touched' = touched \cup {"OpenFile"}
                /\ frame' = [frame EXCEPT !.pc = next]
           ELSE /\ frame' = Fail("io_error")
                /\ UNCHANGED <<fs, touched>>

\* os.Chmod(tempOutput, 0644)
ChmodOutput(next) ==
    \E outcome \in Outcomes({"chmod"}) :
        /\ Charge(outcome)
        /\ hist' = NoteFault(hist, outcome)
        /\ touched' = touched \cup {"Chmod"}
        /\ UNCHANGED <<dirs, calls, sealCount, origin, stream, db, log, conc>>
        /\ IF outcome = "ok"
           THEN /\ fs' = [fs EXCEPT ![WriteTarget(frame)].perm = Perm0644]
                /\ frame' = [frame EXCEPT !.pc = next]
           ELSE /\ frame' = Fail("io_error")
                /\ UNCHANGED fs

\* os.Rename(tempOutput, outputPath), then the loop that takes tempOutput off
\* the cleanup list, then `return nil`.
Commit(kind, pt) ==
    \E outcome \in Outcomes({"rename"}) :
        LET out == Resolve(frame.outputPath) IN
        /\ Charge(outcome)
        /\ touched' = touched \cup {"Rename"}
        /\ UNCHANGED <<dirs, calls, sealCount, stream, db, log, conc>>
        /\ IF outcome = "ok"
           THEN /\ fs' = [fs EXCEPT ![out] = fs[frame.tempOutput],
                                    ![frame.tempOutput] = NoFile]
                /\ origin' = [origin EXCEPT
                                ![out] = [kind |-> kind, pt |-> pt,
                                          kid |-> frame.key.id, tampered |-> FALSE],
                                ![frame.tempOutput] = NoOrigin]
                /\ frame' = [frame EXCEPT !.pc = "defer", !.result = "ok",
                                          !.paths = RemoveFirst(@, frame.tempOutput)]
                /\ hist' = [hist EXCEPT !.committed = frame.tempOutput]
           ELSE /\ frame' = Fail("io_error")
                /\ hist' = NoteFault(hist, outcome)
                /\ UNCHANGED <<fs, origin>>

\* The deferred calls of EncryptFile and DecryptFile: the files are closed and
\* cleanup.Cleanup() removes what is still registered.
Return ==
    /\ frame.pc = "defer"
    /\ fs' = Cleanup(frame.paths, fs)
    /\ origin' = [q \in AllPaths |->
                    IF q \in RangeOf(frame.paths) THEN NoOrigin ELSE origin[q]]
    /\ touched' = IF frame.paths = <<>> THEN touched ELSE touched \cup {"Remove"}
    /\ frame' = [frame EXCEPT !.pc = "done", !.paths = <<>>]
    /\ UNCHANGED <<dirs, faults, calls, sealCount, hist, stream, db, log, conc>>

\* ---------------------------------------------------------------- EncryptFile
\* A call of EncryptFile: the cleanup registry is made and both paths must be
\* absolute.
EncryptFile ==
    \E args \in EncryptCalls :
        LET input == args[1]
            output == args[2]
            key == args[3]
            f == [IdleFrame EXCEPT !.op = "encrypt", !.inputPath = input,
                                   !.outputPath = output, !.key = key]
        IN
        /\ Idle
        /\ calls < MaxCalls
        /\ calls' = calls + 1
        /\ touched' = {}
        /\ hist' = [NoHist EXCEPT !.destAtStart = fs[Resolve(output)],
                                  !.inAtStart = fs[Resolve(input)],
                                  !.inOrigin = origin[Resolve(input)]]
        /\ frame' = IF ~IsAbs(input) \/ ~IsAbs(output)
                    THEN [f EXCEPT !.pc = "defer", !.result = "invalid_path"]
                    ELSE [f EXCEPT !.pc = "e_temp"]
        /\ UNCHANGED <<fs, dirs, faults, sealCount, origin, stream, db, log, conc>>

\* tempOutput, err := createTempFile("encrypt-"); cleanup.Add(tempOutput)
EncCreateTemp ==
    /\ frame.pc = "e_temp"
    /\ CreateTempFile("encrypt-", "e_key")

\* if len(key) != 32
EncCheckKey ==
    /\ frame.pc = "e_key"
    /\ frame' = IF frame.key.len # KeyLen THEN Fail("invalid_key")
                ELSE [frame EXCEPT !.pc = "e_valin"]
    /\ UNCHANGED <<fs, dirs, touched, faults, calls, sealCount, origin, hist, stream, db, log, conc>>

EncValidateInput ==
    /\ frame.pc = "e_valin"
    /\ ValidateFileAndPermissions(frame.inputPath, FALSE, "e_valout")

EncValidateOutput ==
    /\ frame.pc = "e_valout"
    /\ ValidateFileAndPermissions(frame.outputPath, TRUE, "e_openin")

EncOpenInput ==
    /\ frame.pc = "e_openin"
    /\ OpenInput("e_mkdir")

\* os.MkdirAll(filepath.Dir(outputPath), 0755)
EncMkdirOut ==
    /\ frame.pc = "e_mkdir"
    /\ \E outcome \in Outcomes({"mkdir"}) :
        /\ Charge(outcome)
        /\ hist' = NoteFault(hist, outcome)
        /\ touched' = touched \cup {"MkdirAll"}
        /\ IF outcome = "ok"
           THEN /\ dirs' = dirs \cup MkdirAll(Dir(Resolve(frame.outputPath)))
                /\ frame' = [frame EXCEPT !.pc = "e_openout"]
           ELSE /\ frame' = Fail("io_error")
                /\ UNCHANGED dirs
        /\ UNCHANGED <<fs, calls, sealCount, origin, stream, db, log, conc>>

EncOpenOutput ==
    /\ frame.pc = "e_openout"
    /\ OpenOutput("e_chmod")

EncChmodOutput ==
    /\ frame.pc = "e_chmod"
    /\ ChmodOutput("e_nonce")

\* Mutant of FileWrite: the bytes are put in front of what the file holds.
FileWriteFront(data, b) == b \o data

\* outFile.Write(b) on the file EncryptFile writes from its start: the bytes
\* go behind what was written before.
FileWrite(data, b) == data \o b

\* The nonces rand.Reader can deliver: a random 96-bit nonce is taken never to
\* repeat one already used with the key.
FreshNonces(key) == {n \in Nonces : sealCount[<<key.id, n>>] = 0}

\* aes.NewCipher, cipher.NewGCM; the nonce is drawn and written to the output.
EncWriteNonce ==
    /\ frame.pc = "e_nonce"
    /\ \E outcome \in Outcomes({"rand", "write"}), n \in FreshNonces(frame.key) :
        /\ Charge(outcome)
        /\ hist' = NoteFault(hist, outcome)
        /\ IF outcome = "ok"
           THEN /\ fs' = [fs EXCEPT ![WriteTarget(frame)].data = FileWrite(@, n)]
                /\ touched' = touched \cup {"Write"}
                /\ frame' = [frame EXCEPT !.pc = "e_loop", !.nonce = n]
           ELSE /\ frame' = Fail("io_error")
                /\ UNCHANGED <<fs, touched>>
        /\ UNCHANGED <<dirs, calls, sealCount, origin, stream, db, log, conc>>

\* The nonce a block is sealed with: the nonce of the file, for every block.
BlockNonce(nonce, index) == nonce

\* A block that went to gcm.Seal or gcm.Open: its size, and whether it ran up
\* to the end of the input file.
BlockRead(data, off, chunk) ==
    [n |-> Len(chunk), last |-> (off + Len(chunk) = Len(data))]

\* One turn of the loop of EncryptFile after inFile.Read(buf) has returned
\* `chunk`: the chunk is sealed and written; the loop ends when the read
\* returned no bytes.
EncTurn(chunk) ==
    /\ LET data == fs[Resolve(frame.inputPath)].data
           nonce == BlockNonce(frame.nonce, hist.blocks)
           kn == <<frame.key.id, nonce>>
           sealed == [hist EXCEPT !.sizes =
                        Append(@, BlockRead(data, frame.inOff, chunk))]
       IN
       \E outcome \in Outcomes({"read"} \cup
                               (IF chunk = <<>> THEN {} ELSE {"write"})) :
        /\ Charge(outcome)
        /\ UNCHANGED <<dirs, calls, origin, stream, db, log, conc>>
        /\ IF outcome = "read"
           THEN /\ frame' = Fail("io_error")
                /\ hist' = NoteFault(hist, outcome)
                /\ UNCHANGED <<fs, touched, sealCount>>
           ELSE IF chunk = <<>>
           THEN /\ frame' = [frame EXCEPT !.pc = "e_rename"]
                /\ UNCHANGED <<fs, touched, sealCount, hist>>
           ELSE /\ sealCount' = [sealCount EXCEPT ![kn] = @ + 1]
                /\ IF outcome = "write"
                   THEN /\ frame' = Fail("io_error")
                        /\ hist' = NoteFault(sealed, outcome)
                        /\ UNCHANGED <<fs, touched>>
                   ELSE /\ fs' = [fs EXCEPT ![WriteTarget(frame)].data =
                                     FileWrite(@, Seal(frame.key, nonce, chunk))]
                        /\ touched' = touched \cup {"Write"}
                        /\ frame' = [frame EXCEPT !.inOff = @ + Len(chunk)]
                        /\ hist' = [sealed EXCEPT !.blocks = @ + 1]

\* A turn of the loop in which inFile.Read fills the buffer up to the end of
\* the file.
EncBlock ==
    /\ frame.pc = "e_loop"
    /\ EncTurn(ReadAt(fs[Resolve(frame.inputPath)].data, frame.inOff, chunkSize))

EncCommit ==
    /\ frame.pc = "e_rename"
    /\ Commit("enc", fs[Resolve(frame.inputPath)].data)

\* ---------------------------------------------------------------- DecryptFile
\* A call of DecryptFile: the cleanup registry is made; the paths are not
\* looked at.
DecryptFile ==
    \E args \in DecryptCalls :
        LET input == args[1]
            output == args[2]
            key == args[3]
        IN
        /\ Idle
        /\ calls < MaxCalls
        /\ calls' = calls + 1
        /\ touched' = {}
        /\ hist' = [NoHist EXCEPT !.destAtStart = fs[Resolve(output)],
                                  !.inAtStart = fs[Resolve(input)],
                                  !.inOrigin = origin[Resolve(input)]]
        /\ frame' = [IdleFrame EXCEPT !.op = "decrypt", !.inputPath = input,
                                      !.outputPath = output, !.key = key,
                                      !.pc = "d_temp"]
        /\ UNCHANGED <<fs, dirs, faults, sealCount, origin, stream, db, log, conc>>

\* tempOutput, err := createTempFile("decrypt-"); cleanup.Add(tempOutput)
DecCreateTemp ==
    /\ frame.pc = "d_temp"
    /\ CreateTempFile("decrypt-", "d_key")

\* if len(key) != 32
DecCheckKey ==
    /\ frame.pc = "d_key"
    /\ frame' = IF frame.key.len # KeyLen THEN Fail("invalid_key")
                ELSE [frame EXCEPT !.pc = "d_valin"]
    /\ UNCHANGED <<fs, dirs, touched, faults, calls, sealCount, origin, hist, stream, db, log, conc>>

DecValidateInput ==
    /\ frame.pc = "d_valin"
    /\ ValidateFileAndPermissions(frame.inputPath, FALSE, "d_valout")

DecValidateOutput ==
    /\ frame.pc = "d_valout"
    /\ ValidateFileAndPermissions(frame.outputPath, TRUE, "d_openin")

DecOpenInput ==
    /\ frame.pc = "d_openin"
    /\ OpenInput("d_openout")

DecOpenOutput ==
    /\ frame.pc = "d_openout"
    /\ OpenOutput("d_chmod")

DecChmodOutput ==
    /\ frame.pc = "d_chmod"
    /\ ChmodOutput("d_nonce")

\* Mutant of ReadFull: a short read is taken for a full one, and the rest of
\* the buffer keeps its zeros.
ReadFullUnchecked(data, n) ==
    [ok |-> TRUE,
     buf |-> [i \in 1..n |-> IF i <= Len(data) THEN data[i] ELSE 0]]

\* io.ReadFull(inFile, buf) at the start of a file, with len(buf) = n: an
\* error when the file holds fewer than n bytes.
ReadFull(data, n) ==
    IF Len(data) >= n THEN [ok |-> TRUE, buf |-> SubSeq(data, 1, n)]
    ELSE [ok |-> FALSE, buf |-> <<>>]

\* aes.NewCipher, cipher.NewGCM; io.ReadFull(inFile, nonce) fails on a file
\* shorter than the nonce.
DecReadNonce ==
    /\ frame.pc = "d_nonce"
    /\ \E outcome \in Outcomes({"read"}) :
        LET data == fs[Resolve(frame.inputPath)].data
            read == ReadFull(data, NonceSize)
        IN
        /\ Charge(outcome)
        /\ hist' = NoteFault(hist, outcome)
        /\ frame' = IF outcome = "ok" /\ read.ok
                    THEN [frame EXCEPT !.pc = "d_loop", !.inOff = NonceSize,
                                       !.nonce = read.buf]
                    ELSE Fail("io_error")
        /\ UNCHANGED <<fs, dirs, touched, calls, sealCount, origin, stream, db, log, conc>>

\* Mutant of DecBufSize: the buffer leaves no room for the tag.
DecBufSizeNoOverhead == chunkSize

\* buf := make([]byte, chunkSize+gcm.Overhead())
DecBufSize == chunkSize + Overhead

\* Mutant of AuthFailed: the error of gcm.Open is dropped.
AuthFailedIgnored(opened) == FALSE

\* `if err != nil` after gcm.Open
AuthFailed(opened) == ~opened.ok

\* One turn of the loop of DecryptFile after inFile.Read(buf) has returned
\* `chunk`: the chunk is opened and the plaintext is written; the loop ends
\* when the read returned no bytes.
DecTurn(chunk) ==
    /\ LET data == fs[Resolve(frame.inputPath)].data
           nonce == BlockNonce(frame.nonce, hist.blocks)
           opened == Open(frame.key, nonce, chunk)
           tried == [hist EXCEPT !.sizes =
                       Append(@, BlockRead(data, frame.inOff, chunk))]
       IN
       \E outcome \in Outcomes({"read"} \cup
                               (IF chunk # <<>> /\ ~AuthFailed(opened)
                                THEN {"write"} ELSE {})) :
        /\ Charge(outcome)
        /\ UNCHANGED <<dirs, calls, sealCount, origin, stream, db, log, conc>>
        /\ IF outcome = "read"
           THEN /\ frame' = Fail("io_error")
                /\ hist' = NoteFault(hist, outcome)
                /\ UNCHANGED <<fs, touched>>
           ELSE IF chunk = <<>>
           THEN /\ frame' = [frame EXCEPT !.pc = "d_rename"]
                /\ UNCHANGED <<fs, touched, hist>>
           ELSE IF AuthFailed(opened)
           THEN /\ frame' = Fail("auth_error")
                /\ hist' = tried
                /\ UNCHANGED <<fs, touched>>
           ELSE IF outcome = "write"
           THEN /\ frame' = Fail("io_error")
                /\ hist' = NoteFault(tried, outcome)
                /\ UNCHANGED <<fs, touched>>
           ELSE /\ fs' = [fs EXCEPT ![WriteTarget(frame)].data = @ \o opened.pt]
                /\ touched' = touched \cup {"Write"}
                /\ frame' = [frame EXCEPT !.inOff = @ + Len(chunk)]
                /\ hist' = [tried EXCEPT !.blocks = @ + 1]

\* A turn of the loop in which inFile.Read fills the buffer up to the end of
\* the file.
DecBlock ==
    /\ frame.pc = "d_loop"
    /\ DecTurn(ReadAt(fs[Resolve(frame.inputPath)].data, frame.inOff, DecBufSize))

DecCommit ==
    /\ frame.pc = "d_rename"
    /\ Commit("dec", fs[frame.tempOutput].data)

\* --------------------------------------------------------------- environment
\* What a changed symbol becomes: a byte becomes another byte, a tag becomes
\* another tag of the file or a tag no Seal call has produced.
TamperValues(data, pos) ==
    IF data[pos] \in Bytes THEN Bytes
    ELSE {ByteMod} \cup (RangeOf(data) \ Bytes)

\* Between two calls, one byte of the ciphertext region of the encrypted file
\* is changed.
Tamper ==
    /\ Idle
    /\ calls < MaxCalls
    /\ origin[EncPath].kind = "enc"
    /\ ~origin[EncPath].tampered
    /\ LET data == fs[EncPath].data IN
       \E pos \in (NonceSize + 1)..Len(data) :
       \E v \in TamperValues(data, pos) \ {data[pos]} :
          /\ fs' = [fs EXCEPT ![EncPath].data[pos] = v]
          /\ origin' = [origin EXCEPT ![EncPath].tampered = TRUE]
    /\ UNCHANGED <<dirs, frame, touched, faults, calls, sealCount, hist, stream, db, log, conc>>

Next ==
    \/ EncryptFile
    \/ EncCreateTemp
    \/ EncCheckKey
    \/ EncValidateInput
    \/ EncValidateOutput
    \/ EncOpenInput
    \/ EncMkdirOut
    \/ EncOpenOutput
    \/ EncChmodOutput
    \/ EncWriteNonce
    \/ EncBlock
    \/ EncCommit
    \/ DecryptFile
    \/ DecCreateTemp
    \/ DecCheckKey
    \/ DecValidateInput
    \/ DecValidateOutput
    \/ DecOpenInput
    \/ DecOpenOutput
    \/ DecChmodOutput
    \/ DecReadNonce
    \/ DecBlock
    \/ DecCommit
    \/ Return
    \/ Tamper

Spec == Init /\ [][Next]_vars

\* ------------------------------------------------------------- short reads
\* What f.Read(buf) may return where the file system is free to deliver less
\* than was asked for (io.Reader: 0 < n <= len(buf)); 0 with io.EOF at the end.
ShortReadCounts(avail, want) ==
    IF avail = 0 THEN {0} ELSE 1..ReadCount(avail, want)

\* The chunks inFile.Read(buf) may deliver at the offset of the running call.
ShortReads(want) ==
    LET data == fs[Resolve(frame.inputPath)].data IN
    {SubSeq(data, frame.inOff + 1, frame.inOff + n) :
        n \in ShortReadCounts(Len(data) - frame.inOff, want)}

\* A turn of the loop of EncryptFile whose read may be short.
EncBlockShort ==
    /\ frame.pc = "e_loop"
    /\ \E chunk \in ShortReads(chunkSize) : EncTurn(chunk)

\* A turn of the loop of DecryptFile whose read may be short.
DecBlockShort ==
    /\ frame.pc = "d_loop"
    /\ \E chunk \in ShortReads(DecBufSize) : DecTurn(chunk)

\* EncryptFile and DecryptFile on a file system with short reads.
NextShort ==
    \/ EncryptFile
    \/ EncCreateTemp
    \/ EncCheckKey
    \/ EncValidateInput
    \/ EncValidateOutput
    \/ EncOpenInput
    \/ EncMkdirOut
    \/ EncOpenOutput
    \/ EncChmodOutput
    \/ EncWriteNonce
    \/ EncBlockShort
    \/ EncCommit
    \/ DecryptFile
    \/ DecCreateTemp
    \/ DecCheckKey
    \/ DecValidateInput
    \/ DecValidateOutput
    \/ DecOpenInput
    \/ DecOpenOutput
    \/ DecChmodOutput
    \/ DecReadNonce
    \/ DecBlockShort
    \/ DecCommit
    \/ Return

SpecShort == Init /\ [][NextShort]_vars

\* ================================================== StreamVideo: serving
\* Longest decrypted body of a playback request, in bytes.
MaxBody == 6
\* Bytes handed to the client in one write of io.Copy / io.CopyN.
CopyChunk == 2

\* HTTP status codes.
StatusOK == 200
StatusPartialContent == 206
StatusRequestedRangeNotSatisfiable == 416

\* A string is the sequence of its characters.
Digits == <<"0", "1", "2", "3", "4", "5", "6", "7", "8", "9">>

IsDigit(c) == \E i \in 1..10 : Digits[i] = c

DigitVal(c) == (CHOOSE i \in 1..10 : Digits[i] = c) - 1

RECURSIVE FormatNat(_)
FormatNat(n) ==
    IF n < 10 THEN <<Digits[n + 1]>>
    ELSE FormatNat(n \div 10) \o <<Digits[(n % 10) + 1]>>

\* The verb %d of fmt.Sprintf.
FormatInt(n) == IF n < 0 THEN <<"-">> \o FormatNat(0 - n) ELSE FormatNat(n)

BytesEq == <<"b", "y", "t", "e", "s", "=">>

\* fmt.Sprintf("bytes %d-%d/%d", start, end, size)
FormatContentRange(start, end, size) ==
    <<"b", "y", "t", "e", "s", " ">> \o FormatInt(start) \o <<"-">>
        \o FormatInt(end) \o <<"/">> \o FormatInt(size)

RECURSIVE SkipSpace(_, _)
\* The first position from pos on that holds no space.
SkipSpace(str, pos) ==
    IF pos <= Len(str) /\ str[pos] = " " THEN SkipSpace(str, pos + 1) ELSE pos

RECURSIVE DigitsEnd(_, _)
\* The first position from pos on that holds no digit.
DigitsEnd(str, pos) ==
    IF pos <= Len(str) /\ IsDigit(str[pos]) THEN DigitsEnd(str, pos + 1) ELSE pos

RECURSIVE ParseNat(_, _, _, _)
\* The value of the digits str[from .. to-1], after the value acc of the
\* digits before them.
ParseNat(str, from, to, acc) ==
    IF from >= to THEN acc
    ELSE ParseNat(str, from + 1, to, 10 * acc + DigitVal(str[from]))

\* The largest int64, 2^63 - 1, scaled to 2^7 - 1.
MaxInt64 == 127

\* strconv.ParseInt(tok, 10, 64): a value outside int64 is an error.
InInt64(v) == (0 - MaxInt64) - 1 <= v /\ v <= MaxInt64

\* The verb %d of fmt.Sscanf at position pos: spaces are skipped, then an
\* optional sign and at least one digit are read; the scan fails when the
\* digits do not fit an int64.
ScanInt(str, pos) ==
    LET p1 == SkipSpace(str, pos)
        signed == p1 <= Len(str) /\ str[p1] \in {"+", "-"}
        p2 == IF signed THEN p1 + 1 ELSE p1
        p3 == DigitsEnd(str, p2)
        mag == ParseNat(str, p2, p3, 0)
        val == IF signed /\ str[p1] = "-" THEN 0 - mag ELSE mag
    IN  IF p1 > Len(str) \/ p3 = p2 \/ ~InInt64(val)
        THEN [ok |-> FALSE, val |-> 0, pos |-> p2]
        ELSE [ok |-> TRUE, val |-> val, pos |-> p3]

\* A literal of the format: the input must hold the same characters.
MatchLiteral(str, pos, lit) ==
    /\ pos + Len(lit) - 1 <= Len(str)
    /\ SubSeq(str, pos, pos + Len(lit) - 1) = lit

\* fmt.Sscanf(rangeHeader, "bytes=%d-%d", &start, &end): the scan stops at the
\* first mismatch and the variables not yet assigned keep the value 0.
Sscanf(str) ==
    IF ~MatchLiteral(str, 1, BytesEq) THEN [start |-> 0, end |-> 0]
    ELSE LET s1 == ScanInt(str, Len(BytesEq) + 1) IN
         IF ~s1.ok THEN [start |-> 0, end |-> 0]
         ELSE IF ~MatchLiteral(str, s1.pos, <<"-">>)
              THEN [start |-> s1.val, end |-> 0]
              ELSE LET s2 == ScanInt(str, s1.pos + 1) IN
                   [start |-> s1.val, end |-> IF s2.ok THEN s2.val ELSE 0]

\* `if end == 0 { end = size - 1 }`
DefaultEnd(end, size) == IF end = 0 THEN size - 1 ELSE end

\* parseRange(rangeHeader, size)
parseRange(rangeHeader, size) ==
    LET scanned == Sscanf(rangeHeader)
        start == scanned.start
        end == DefaultEnd(scanned.end, size)
    IN  IF start > end \/ start < 0 \/ end >= size
        THEN [ok |-> FALSE, start |-> 0, end |-> 0]
        ELSE [ok |-> TRUE, start |-> start, end |-> end]

\* The requests of the model, and the Range header each one sends.
Requests ==
    {[kind |-> "none", a |-> 0, b |-> 0]}
        \cup {[kind |-> "closed", a |-> a, b |-> b] :
                a \in (0 - 1)..(MaxBody + 1), b \in 0..(MaxBody + 1)}
        \cup {[kind |-> "open", a |-> a, b |-> 0] :
                a \in 0..(MaxBody + 1) \cup {MaxInt64 + 1}}
        \cup {[kind |-> k, a |-> 0, b |-> 1] : k \in {"nostart", "unit", "bare"}}

HeaderOf(req) ==
    CASE req.kind = "none" -> <<>>
      [] req.kind = "closed" ->
            BytesEq \o FormatInt(req.a) \o <<"-">> \o FormatInt(req.b)
      [] req.kind = "open" -> BytesEq \o FormatInt(req.a) \o <<"-">>
      [] req.kind = "nostart" -> BytesEq \o <<"-">> \o FormatInt(req.b)
      [] req.kind = "unit" ->
            <<"i", "t", "e", "m", "s", "=">> \o FormatInt(req.a) \o <<"-">>
                \o FormatInt(req.b)
      [] req.kind = "bare" -> FormatInt(req.a) \o <<"-">> \o FormatInt(req.b)

\* The decrypted scratch file of size n: every byte holds its offset.
BodyOf(n) == [i \in 1..n |-> i - 1]

\* A playback request whose scratch file has been decrypted and opened.
InitStream ==
    /\ \E req \in Requests, n \in 0..MaxBody :
          stream = [NoStream EXCEPT !.pc = "serve", !.req = req,
                                    !.header = HeaderOf(req), !.body = BodyOf(n)]
    /\ fs = [q \in AllPaths |-> NoFile]
    /\ origin = [q \in AllPaths |-> NoOrigin]
    /\ dirs = MkdirAll(Dir(OutPath))
    /\ frame = IdleFrame
    /\ touched = {}
    /\ faults = 0
    /\ calls = 0
    /\ sealCount = [kn \in {0, 1} \X Nonces |-> 0]
    /\ hist = NoHist
    /\ db = {}
    /\ log = {}
    /\ conc = NoConc

CodecVars ==
    <<fs, dirs, frame, touched, faults, calls, sealCount, origin, hist,
      db, log, conc>>

\* `if rangeHeader != ""`: the range is parsed; an invalid range is answered
\* with 416, a valid one with the 206 headers and a seek to its start.
StreamRange ==
    /\ stream.pc = "serve"
    /\ stream.header # <<>>
    /\ LET size == Len(stream.body)
           ranges == parseRange(stream.header, size)
       IN
       /\ stream' = IF ~ranges.ok
                    THEN [stream EXCEPT !.pc = "return",
                                        !.status = StatusRequestedRangeNotSatisfiable]
                    ELSE [stream EXCEPT
                            !.pc = "copyn",
                            !.status = StatusPartialContent,
                            !.contentRange =
                                FormatContentRange(ranges.start, ranges.end, size),
                            !.contentLength =
                                FormatInt(ranges.end - ranges.start + 1),
                            !.off = ranges.start,
                            !.left = ranges.end - ranges.start + 1]
       /\ log' = IF ranges.ok THEN log ELSE log \cup {"Invalid range request"}
    /\ UNCHANGED <<fs, dirs, frame, touched, faults, calls, sealCount, origin,
                   hist, db, conc>>

\* Mutant of CopyRead: the read finds the file at its end.
CopyReadNothing(body, off, limit) == <<>>

\* The bytes one turn of a copy loop reads: at most CopyChunk, at most `limit`.
CopyRead(body, off, limit) ==
    LET want == IF limit < CopyChunk THEN limit ELSE CopyChunk
    IN  SubSeq(body, off + 1, off + ReadCount(Len(body) - off, want))

\* One write to the client: it fails when the client has gone, and the client
\* may go at any write.
ClientWrite(st, chunk, gone) ==
    IF st.clientGone \/ gone
    THEN [st EXCEPT !.clientGone = TRUE,
                    !.lateWrites = IF st.clientGone THEN @ + 1 ELSE @]
    ELSE [st EXCEPT !.sent = @ \o chunk]

\* io.CopyN(c.Writer, videoFile, length): chunks are read and written until
\* `length` bytes are through or a write fails; then the handler returns.
StreamCopyN ==
    /\ stream.pc = "copyn"
    /\ LET chunk == CopyRead(stream.body, stream.off, stream.left) IN
       IF chunk = <<>>
       THEN stream' = [stream EXCEPT !.pc = "return"]
       ELSE \E gone \in BOOLEAN :
              LET st == ClientWrite([stream EXCEPT !.off = @ + Len(chunk),
                                                   !.left = @ - Len(chunk)],
                                    chunk, gone)
              IN  stream' = IF st.clientGone THEN [st EXCEPT !.pc = "return"]
                            ELSE st
    /\ UNCHANGED CodecVars

\* No Range header: Content-Length is the size of the file.
StreamFull ==
    /\ stream.pc = "serve"
    /\ stream.header = <<>>
    /\ stream' = [stream EXCEPT !.pc = "copy1", !.status = StatusOK,
                                !.contentLength = FormatInt(Len(stream.body))]
    /\ UNCHANGED CodecVars

\* One turn of io.Copy(c.Writer, videoFile): it ends at end-of-file or at a
\* failed write, and the handler goes on at `next`.
CopyTurn(next) ==
    LET chunk == CopyRead(stream.body, stream.off, CopyChunk) IN
    IF chunk = <<>>
    THEN stream' = [stream EXCEPT !.pc = next]
    ELSE \E gone \in BOOLEAN :
           LET st == ClientWrite([stream EXCEPT !.off = @ + Len(chunk)],
                                 chunk, gone)
           IN  stream' = IF st.clientGone THEN [st EXCEPT !.pc = next] ELSE st

\* The first io.Copy(c.Writer, videoFile).
StreamCopy ==
    /\ stream.pc = "copy1"
    /\ CopyTurn("copy2")
    /\ UNCHANGED CodecVars

\* The second io.Copy(c.Writer, videoFile), from where the first one stopped.
StreamCopyAgain ==
    /\ stream.pc = "copy2"
    /\ CopyTurn("return")
    /\ UNCHANGED CodecVars

\* Mutant of RemoveDeferred: nothing is removed.
RemoveDeferredNothing(paths, files) == files

\* The deferred os.Remove(tempPath) calls: every path is unlinked; a path that
\* names no file is skipped.
RemoveDeferred(paths, files) ==
    [q \in AllPaths |-> IF q \in RangeOf(paths) THEN NoFile ELSE files[q]]

\* The handler returns: its deferred calls run.
StreamReturn ==
    /\ stream.pc = "return"
    /\ fs' = RemoveDeferred(stream.deferred, fs)
    /\ origin' = [q \in AllPaths |->
                    IF q \in RangeOf(stream.deferred) THEN NoOrigin ELSE origin[q]]
    /\ stream' = [stream EXCEPT !.pc = "done"]
    /\ UNCHANGED <<dirs, frame, touched, faults, calls, sealCount, hist, db, log,
                   conc>>

NextStream ==
    \/ StreamRange
    \/ StreamCopyN
    \/ StreamFull
    \/ StreamCopy
    \/ StreamCopyAgain
    \/ StreamReturn

SpecStream == InitStream /\ [][NextStream]_vars

\* ================================================= StreamVideo: the handler
StatusNotFound == 404
StatusInternalServerError == 500

\* The id of the video the request names.
VideoId == "v"

\* What EncryptFile has stored for a plaintext, under the process key Key1.
GenuineFiles ==
    {[data |-> CompleteOutput(Key1, nonce, pt),
      from |-> [kind |-> "enc", pt |-> pt, kid |-> Key1.id, tampered |-> FALSE]] :
        pt \in Plaintexts, nonce \in Nonces}

\* The stored file g with one symbol after the nonce changed.
TamperedOf(g) ==
    {[data |-> [g.data EXCEPT ![c[1]] = c[2]],
      from |-> [g.from EXCEPT !.tampered = TRUE]] :
        c \in {d \in ((NonceSize + 1)..Len(g.data))
                        \X (Bytes \cup RangeOf(g.data) \cup {ByteMod}) :
                  d[2] \in TamperValues(g.data, d[1]) \ {g.data[d[1]]}}}

TamperedFiles == UNION {TamperedOf(g) : g \in GenuineFiles}

\* A stored file cut off inside its nonce.
ShortFiles ==
    {[data |-> SubSeq(g.data, 1, k),
      from |-> [kind |-> "short", pt |-> <<>>, kid |-> Key1.id, tampered |-> FALSE]] :
        g \in GenuineFiles, k \in 0..(NonceSize - 1)}

StoredFiles == GenuineFiles \cup TamperedFiles \cup ShortFiles

\* A request for a video arrives, and its handler starts at `pc`: the video
\* has a record or none, its encrypted file is absent or is one of the stored
\* files, and no scratch file exists.
RequestArrives(pc) ==
    /\ \/ /\ fs = [q \in AllPaths |-> NoFile]
          /\ origin = [q \in AllPaths |-> NoOrigin]
       \/ \E v \in StoredFiles :
          /\ fs = [q \in AllPaths |->
                     IF q = EncPath THEN NewFile(v.data, Perm0644) ELSE NoFile]
          /\ origin = [q \in AllPaths |-> IF q = EncPath THEN v.from ELSE NoOrigin]
    /\ dirs = MkdirAll(Dir(EncPath)) \cup MkdirAll(TmpDir)
    /\ frame = IdleFrame
    /\ touched = {}
    /\ faults = 0
    /\ calls = 0
    /\ sealCount = [kn \in {0, 1} \X Nonces |-> 0]
    /\ hist = NoHist
    /\ stream = [NoStream EXCEPT !.pc = pc]
    /\ db \in {{}, {VideoId}}
    /\ log = {}
    /\ conc = NoConc

InitPlay == RequestArrives("lookup")

\* c.JSON(status, ...) on an error path, after log.Printf; the handler returns.
ErrorResponse(status, message) ==
    /\ stream' = [stream EXCEPT !.pc = "return", !.status = status]
    /\ log' = log \cup {message}

\* The metadata query, `defer os.Remove(tempPath)` for the first temp path,
\* and fileExists(encryptedPath).
PlayLookup ==
    /\ stream.pc = "lookup"
    /\ IF VideoId \notin db
       THEN ErrorResponse(StatusNotFound, "Error fetching video metadata")
       ELSE IF ~fs[EncPath].exists
       THEN /\ stream' = [stream EXCEPT !.pc = "return",
                                        !.status = StatusNotFound,
                                        !.deferred = <<FirstTempPath>>]
            /\ log' = log \cup {"Encrypted file not found"}
       ELSE /\ stream' = [stream EXCEPT !.pc = "mkdir",
                                        !.deferred = <<FirstTempPath>>]
            /\ UNCHANGED log
    /\ UNCHANGED <<fs, dirs, frame, touched, faults, calls, sealCount, origin,
                   hist, db, conc>>

\* os.MkdirAll(tempDir, 0755), the scratch path under it, and
\* `defer os.Remove(tempPath)`.
PlayMkdir ==
    /\ stream.pc = "mkdir"
    /\ \E outcome \in Outcomes({"mkdir"}) :
        /\ Charge(outcome)
        /\ IF outcome = "mkdir"
           THEN /\ ErrorResponse(StatusInternalServerError,
                                 "Error creating temp directory")
                /\ UNCHANGED dirs
           ELSE /\ dirs' = dirs \cup MkdirAll(Dir(OutPath))
                /\ stream' = [stream EXCEPT !.pc = "prepare",
                                            !.deferred = Append(@, OutPath)]
                /\ UNCHANGED log
    /\ UNCHANGED <<fs, frame, touched, calls, sealCount, origin, hist, db, conc>>

\* The key of the environment is checked, the scratch file is created empty
\* (O_CREATE|O_WRONLY|O_TRUNC, 0644) and closed, and utils.DecryptFile is
\* called with it as the output path.
PlayPrepare ==
    /\ stream.pc = "prepare"
    /\ \E key \in Keys, outcome \in Outcomes({"create"}) :
        /\ Charge(outcome)
        /\ UNCHANGED <<dirs, sealCount, origin, db, conc>>
        /\ IF key.len # KeyLen
           THEN /\ outcome = "ok"
                /\ ErrorResponse(StatusInternalServerError,
                                 "Invalid encryption key length")
                /\ UNCHANGED <<fs, frame, touched, calls, hist>>
           ELSE IF outcome = "create"
           THEN /\ ErrorResponse(StatusInternalServerError,
                                 "Error creating temp file")
                /\ UNCHANGED <<fs, frame, touched, calls, hist>>
           ELSE /\ fs' = [fs EXCEPT ![OutPath] = NewFile(<<>>, Perm0644)]
                /\ stream' = [stream EXCEPT !.pc = "decrypt"]
                /\ calls' = calls + 1
                /\ touched' = {}
                /\ hist' = [NoHist EXCEPT
                              !.destAtStart = NewFile(<<>>, Perm0644),
                              !.inAtStart = fs[EncPath],
                              !.inOrigin = origin[EncPath]]
                /\ frame' = [IdleFrame EXCEPT !.op = "decrypt",
                                              !.inputPath = EncPath,
                                              !.outputPath = OutPath,
                                              !.key = key, !.pc = "d_temp"]
                /\ UNCHANGED log

\* Mutant of DecryptFailed: the error of DecryptFile is not looked at.
DecryptFailedIgnored(result) == FALSE

\* `if err := utils.DecryptFile(...); err != nil`
DecryptFailed(result) == result # "ok"

\* DecryptFile has returned: its error is answered with 500; otherwise the
\* scratch file is opened, its size is taken and the Range header is read.
PlayDecrypted ==
    /\ stream.pc = "decrypt"
    /\ frame.pc = "done"
    /\ UNCHANGED <<fs, dirs, frame, touched, calls, sealCount, origin, hist,
                   db, conc>>
    /\ IF DecryptFailed(frame.result)
       THEN /\ ErrorResponse(StatusInternalServerError, "Error decrypting video")
            /\ UNCHANGED faults
       ELSE \E outcome \in Outcomes({"open", "stat"}) :
            /\ Charge(outcome)
            /\ CASE outcome = "open" ->
                      ErrorResponse(StatusInternalServerError,
                                    "Error opening decrypted video")
                 [] outcome = "stat" ->
                      ErrorResponse(StatusInternalServerError,
                                    "Error getting video info")
                 [] outcome = "ok" ->
                      /\ \E req \in Requests :
                            stream' = [stream EXCEPT !.pc = "serve", !.req = req,
                                                     !.header = HeaderOf(req),
                                                     !.body = fs[OutPath].data]
                      /\ UNCHANGED log

NextPlay ==
    \/ PlayLookup
    \/ PlayMkdir
    \/ PlayPrepare
    \/ DecCreateTemp
    \/ DecCheckKey
    \/ DecValidateInput
    \/ DecValidateOutput
    \/ DecOpenInput
    \/ DecOpenOutput
    \/ DecChmodOutput
    \/ DecReadNonce
    \/ DecBlock
    \/ DecCommit
    \/ Return
    \/ PlayDecrypted
    \/ StreamRange
    \/ StreamCopyN
    \/ StreamFull
    \/ StreamCopy
    \/ StreamCopyAgain
    \/ StreamReturn

SpecPlay == InitPlay /\ [][NextPlay]_vars

\* ================================================================ DeleteVideo
InitDelete == RequestArrives("del_lookup")

\* c.JSON(status, ...): the handler returns.
Respond(status) == stream' = [stream EXCEPT !.pc = "done", !.status = status]

\* The file name of the video is queried.
DelLookup ==
    /\ stream.pc = "del_lookup"
    /\ IF VideoId \in db THEN stream' = [stream EXCEPT !.pc = "del_unlink"]
                          ELSE Respond(StatusNotFound)
    /\ UNCHANGED <<fs, dirs, frame, touched, faults, calls, sealCount, origin,
                   hist, db, log, conc>>

\* os.Remove(encryptedPath): the file is unlinked, or the call fails; its
\* result is not assigned.
DelUnlink ==
    /\ stream.pc = "del_unlink"
    /\ \E outcome \in Outcomes(IF fs[EncPath].exists THEN {"remove"} ELSE {}) :
        /\ Charge(outcome)
        /\ IF outcome = "ok"
           THEN /\ fs' = [fs EXCEPT ![EncPath] = NoFile]
                /\ origin' = [origin EXCEPT ![EncPath] = NoOrigin]
           ELSE UNCHANGED <<fs, origin>>
        /\ stream' = [stream EXCEPT !.pc = "del_exec",
                                    !.unlinkErr = Faulted(outcome)]
    /\ UNCHANGED <<dirs, frame, touched, calls, sealCount, hist, db, log, conc>>

\* DELETE FROM videos WHERE id = ?, then the answer: 500 when the statement
\* fails, 404 when it deleted no row, 200 otherwise.
DelExec ==
    /\ stream.pc = "del_exec"
    /\ \E outcome \in Outcomes({"exec"}) :
        /\ Charge(outcome)
        /\ IF outcome = "exec"
           THEN /\ Respond(StatusInternalServerError)
                /\ UNCHANGED db
           ELSE /\ db' = db \ {VideoId}
                /\ Respond(IF VideoId \in db THEN StatusOK ELSE StatusNotFound)
    /\ UNCHANGED <<fs, dirs, frame, touched, calls, sealCount, origin, hist,
                   log, conc>>

NextDelete ==
    \/ DelLookup
    \/ DelUnlink
    \/ DelExec

SpecDelete == InitDelete /\ [][NextDelete]_vars

\* ================================================================ UploadVideo
StatusBadRequest == 400
StatusCreated == 201

\* The uploads: a multipart file with an allowed extension, a form without the
\* file, and a file whose extension is not allowed.
UploadKinds == {"video", "nofile", "badext"}

\* An upload arrives.  videoID is a fresh uuid: nothing is stored under the
\* upload path or the encrypted path, and the video has no record.
InitUpload ==
    /\ fs = [q \in AllPaths |-> NoFile]
    /\ origin = [q \in AllPaths |-> NoOrigin]
    /\ dirs = MkdirAll(TmpDir)
    /\ frame = IdleFrame
    /\ touched = {}
    /\ faults = 0
    /\ calls = 0
    /\ sealCount = [kn \in {0, 1} \X Nonces |-> 0]
    /\ hist = NoHist
    /\ \E p \in Plaintexts, kind \in UploadKinds :
          stream = [NoStream EXCEPT !.pc = "up_bind", !.body = p,
                                    !.req = [kind |-> kind, a |-> 0, b |-> 0]]
    /\ db = {}
    /\ log = {}
    /\ conc = NoConc

\* c.JSON(status, ...) of UploadVideo after its log lines; the handler returns.
UploadResponse(status, messages) ==
    /\ stream' = [stream EXCEPT !.pc = "done", !.status = status]
    /\ log' = log \cup messages

\* Mutant of RemoveFile: the file stays.
RemoveFileNothing(files, path) == files

\* os.Remove(path), its result dropped.
RemoveFile(files, path) == [files EXCEPT ![path] = NoFile]

\* c.ShouldBind, c.FormFile("video") and the check of the extension.
UpBind ==
    /\ stream.pc = "up_bind"
    /\ CASE stream.req.kind = "nofile" ->
              UploadResponse(StatusBadRequest, {"Error getting video file"})
         [] stream.req.kind = "badext" ->
              UploadResponse(StatusBadRequest, {"[Upload] Invalid file extension"})
         [] OTHER ->
              /\ stream' = [stream EXCEPT !.pc = "up_mkdir"]
              /\ UNCHANGED log
    /\ UNCHANGED <<fs, dirs, frame, touched, faults, calls, sealCount, origin,
                   hist, db, conc>>

\* os.MkdirAll of the storage and the encrypted directory, file.Open() and
\* os.MkdirAll(filepath.Dir(uploadPath)).
UpMkdir ==
    /\ stream.pc = "up_mkdir"
    /\ \E outcome \in Outcomes({"mkdir", "open"}) :
        /\ Charge(outcome)
        /\ CASE outcome = "mkdir" ->
                  /\ UploadResponse(StatusInternalServerError,
                                    {"[Upload] Failed to create storage directory"})
                  /\ UNCHANGED dirs
             [] outcome = "open" ->
                  /\ UploadResponse(StatusInternalServerError,
                                    {"Error opening uploaded file"})
                  /\ dirs' = dirs \cup MkdirAll(Dir(PlainPath))
                                  \cup MkdirAll(Dir(EncPath))
             [] outcome = "ok" ->
                  /\ stream' = [stream EXCEPT !.pc = "up_create"]
                  /\ dirs' = dirs \cup MkdirAll(Dir(PlainPath))
                                  \cup MkdirAll(Dir(EncPath))
                  /\ UNCHANGED log
    /\ UNCHANGED <<fs, frame, touched, calls, sealCount, origin, hist, db, conc>>

\* dst, err := os.Create(uploadPath)
UpCreate ==
    /\ stream.pc = "up_create"
    /\ \E outcome \in Outcomes({"create"}) :
        /\ Charge(outcome)
        /\ IF outcome = "create"
           THEN /\ UploadResponse(StatusInternalServerError,
                                  {"Error creating destination file"})
                /\ UNCHANGED fs
           ELSE /\ fs' = [fs EXCEPT ![PlainPath] = NewFile(<<>>, Perm0644)]
                /\ stream' = [stream EXCEPT !.pc = "up_copy", !.rawCreated = TRUE]
                /\ UNCHANGED log
    /\ UNCHANGED <<dirs, frame, touched, calls, sealCount, origin, hist, db, conc>>

\* io.Copy(dst, src): the body is written to the raw file; when the copy fails
\* the file, with what was written of it, is removed.
UpCopy ==
    /\ stream.pc = "up_copy"
    /\ \E outcome \in Outcomes({"copy"}) :
        /\ Charge(outcome)
        /\ IF outcome = "copy"
           THEN /\ \E k \in 0..Len(stream.body) :
                      fs' = RemoveFile([fs EXCEPT ![PlainPath].data =
                                           SubSeq(stream.body, 1, k)], PlainPath)
                /\ UploadResponse(StatusInternalServerError, {})
                /\ UNCHANGED origin
           ELSE /\ fs' = [fs EXCEPT ![PlainPath].data = stream.body]
                /\ origin' = [origin EXCEPT ![PlainPath] =
                                [kind |-> "plain", pt |-> stream.body, kid |-> 0,
                                 tampered |-> FALSE]]
                /\ stream' = [stream EXCEPT !.pc = "up_key"]
                /\ UNCHANGED log
    /\ UNCHANGED <<dirs, frame, touched, calls, sealCount, hist, db, conc>>

\* The key of the environment: a key of the wrong length ends the request
\* after the raw file is removed; otherwise utils.EncryptFile is called with
\* the upload path and the encrypted path, which are absolute.
UpCheckKey ==
    /\ stream.pc = "up_key"
    /\ \E key \in Keys :
        IF key.len # KeyLen
        THEN /\ fs' = RemoveFile(fs, PlainPath)
             /\ origin' = [origin EXCEPT ![PlainPath] = NoOrigin]
             /\ UploadResponse(StatusInternalServerError,
                               {"[Encryption] Error: Invalid key length"})
             /\ UNCHANGED <<frame, touched, calls, hist>>
        ELSE /\ stream' = [stream EXCEPT !.pc = "up_encrypt"]
             /\ calls' = calls + 1
             /\ touched' = {}
             /\ hist' = [NoHist EXCEPT !.destAtStart = fs[EncPath],
                                       !.inAtStart = fs[PlainPath],
                                       !.inOrigin = origin[PlainPath]]
             /\ frame' = [IdleFrame EXCEPT !.op = "encrypt",
                                           !.inputPath = PlainPath,
                                           !.outputPath = EncPath,
                                           !.key = key, !.pc = "e_temp"]
             /\ UNCHANGED <<fs, origin, log>>
    /\ UNCHANGED <<dirs, faults, sealCount, db, conc>>

\* EncryptFile has returned.  Its error is answered with 500; in both cases
\* the raw file is removed.
UpEncrypted ==
    /\ stream.pc = "up_encrypt"
    /\ frame.pc = "done"
    /\ fs' = RemoveFile(fs, PlainPath)
    /\ origin' = [origin EXCEPT ![PlainPath] = NoOrigin]
    /\ IF frame.result # "ok"
       THEN UploadResponse(StatusInternalServerError, {"[Encryption] Failed"})
       ELSE /\ stream' = [stream EXCEPT !.pc = "up_insert"]
            /\ log' = log \cup {"[Encryption] Successfully encrypted video"}
    /\ UNCHANGED <<dirs, frame, touched, faults, calls, sealCount, hist, db, conc>>

\* Mutant of InsertVideo: no row is written.
InsertVideoNothing(records, id) == records

\* INSERT INTO videos (id, ...) VALUES (videoID, ...)
InsertVideo(records, id) == records \cup {id}

\* The metadata record is inserted and 201 is answered; when the statement
\* fails the encrypted file is removed and 500 is answered.
UpInsert ==
    /\ stream.pc = "up_insert"
    /\ \E outcome \in Outcomes({"exec"}) :
        /\ Charge(outcome)
        /\ IF outcome = "exec"
           THEN /\ fs' = RemoveFile(fs, EncPath)
                /\ origin' = [origin EXCEPT ![EncPath] = NoOrigin]
                /\ UploadResponse(StatusInternalServerError,
                                  {"Error saving video metadata"})
                /\ UNCHANGED db
           ELSE /\ db' = InsertVideo(db, VideoId)
                /\ UploadResponse(StatusCreated, {"Successfully uploaded video"})
                /\ UNCHANGED <<fs, origin>>
    /\ UNCHANGED <<dirs, frame, touched, calls, sealCount, hist, conc>>

NextUpload ==
    \/ UpBind
    \/ UpMkdir
    \/ UpCreate
    \/ UpCopy
    \/ UpCheckKey
    \/ EncCreateTemp
    \/ EncCheckKey
    \/ EncValidateInput
    \/ EncValidateOutput
    \/ EncOpenInput
    \/ EncMkdirOut
    \/ EncOpenOutput
    \/ EncChmodOutput
    \/ EncWriteNonce
    \/ EncBlock
    \/ EncCommit
    \/ Return
    \/ UpEncrypted
    \/ UpInsert

SpecUpload == InitUpload /\ [][NextUpload]_vars

\* ===================================================== concurrent operations
\* Playback requests and EncryptFile calls of uploads that run at the same
\* time.  Only the names of their files matter here: conc.files maps a path to
\* the operation whose file is there (0: no file).

InFlight(i) == conc.ops[i].pc \notin {"idle", "done"}

\* The file at path q belongs to another operation that is in flight.
ForeignFile(i, q) ==
    /\ conc.files[q] \notin {0, i}
    /\ InFlight(conc.files[q])

\* Mutant of FreeTempNames: a name is taken whether or not a file has it.
AnyTempNames(files, prefix) == {<<prefix, n>> : n \in TempSuffixes}

\* os.CreateTemp(tmpDir, prefix) opens with O_EXCL and tries another name
\* when the file exists: the new file has a name that no file has.
FreeTempNames(files, prefix) ==
    {q \in {<<prefix, n>> : n \in TempSuffixes} : files[q] = 0}

\* Unlinking the paths of `paths` on behalf of operation i.
ConcRemove(i, paths) ==
    [files |-> [q \in ConcPaths |->
                  IF q \in RangeOf(paths) THEN 0 ELSE conc.files[q]],
     stolen |-> conc.stolen \/ \E q \in RangeOf(paths) : ForeignFile(i, q)]

InitConc ==
    /\ fs = [q \in AllPaths |-> NoFile]
    /\ origin = [q \in AllPaths |-> NoOrigin]
    /\ dirs = MkdirAll(TmpDir)
    /\ frame = IdleFrame
    /\ touched = {}
    /\ faults = 0
    /\ calls = 0
    /\ sealCount = [kn \in {0, 1} \X Nonces |-> 0]
    /\ hist = NoHist
    /\ stream = NoStream
    /\ db = {}
    /\ log = {}
    /\ conc = NoConc

SeqVars ==
    <<fs, dirs, frame, touched, faults, calls, sealCount, origin, hist, stream,
      db, log>>

\* StreamVideo up to the call of DecryptFile: both temp paths get a uuid of
\* their own and their deferred os.Remove, and the scratch file is created.  The
\* request may fail before the second path is made, or when it creates the
\* file.
ConcPlayStart ==
    /\ \E i \in ConcOps, outcome \in {"ok", "early", "create"} :
        LET first == <<"first", i>>
            scratch == <<"scratch", i>>
            op == conc.ops[i]
        IN
        /\ op.pc = "idle"
        /\ conc' =
             IF outcome = "early"
             THEN [conc EXCEPT
                     !.ops[i] = [op EXCEPT !.kind = "play", !.pc = "p_return",
                                           !.deferred = <<first>>]]
             ELSE [conc EXCEPT
                     !.stolen = @ \/ (outcome = "ok" /\ ForeignFile(i, scratch)),
                     !.files[scratch] = IF outcome = "ok" THEN i ELSE @,
                     !.ops[i] =
                        [op EXCEPT !.kind = "play",
                                   !.pc = IF outcome = "ok" THEN "d_temp"
                                                            ELSE "p_return",
                                   !.dest = scratch,
                                   !.using = IF outcome = "ok" THEN {scratch}
                                                                ELSE {},
                                   !.deferred = <<first, scratch>>]]
    /\ UNCHANGED SeqVars

\* UploadVideo calls EncryptFile with the encrypted path of the new video,
\* which is named after the uuid of the video.
ConcEncryptStart ==
    /\ \E i \in ConcOps :
        /\ conc.ops[i].pc = "idle"
        /\ conc' = [conc EXCEPT !.ops[i] = [@ EXCEPT !.kind = "encrypt",
                                                     !.pc = "d_temp",
                                                     !.dest = <<"out", i>>]]
    /\ UNCHANGED SeqVars

\* createTempFile(prefix) and cleanup.Add(tempOutput), or an error.
ConcCreateTemp ==
    /\ \E i \in ConcOps :
        LET op == conc.ops[i]
            prefix == IF op.kind = "encrypt" THEN "encrypt-" ELSE "decrypt-"
        IN
        /\ op.pc = "d_temp"
        /\ \/ conc' = [conc EXCEPT !.ops[i].pc = "d_defer"]
           \/ \E tmp \in FreeTempNames(conc.files, prefix) :
                conc' = [conc EXCEPT
                           !.stolen = @ \/ ForeignFile(i, tmp),
                           !.files[tmp] = i,
                           !.ops[i] = [op EXCEPT !.pc = "d_rename",
                                                 !.tempOutput = tmp,
                                                 !.paths = Add(@, tmp),
                                                 !.using = @ \cup {tmp}]]
    /\ UNCHANGED SeqVars

\* The output is written to the staged file and os.Rename moves it to the
\* output path; or a step before the rename, or the rename, fails.
ConcRename ==
    /\ \E i \in ConcOps :
        LET op == conc.ops[i] IN
        /\ op.pc = "d_rename"
        /\ \/ conc' = [conc EXCEPT !.ops[i].pc = "d_defer"]
           \/ conc' = [conc EXCEPT
                         !.stolen = @ \/ ForeignFile(i, op.dest),
                         !.files[op.dest] = conc.files[op.tempOutput],
                         !.files[op.tempOutput] = 0,
                         !.ops[i] = [op EXCEPT !.pc = "d_unreg",
                                               !.using = @ \ {op.tempOutput}]]
    /\ UNCHANGED SeqVars

\* The loop that takes tempOutput off cleanup.paths after the rename.
ConcUnregister ==
    /\ \E i \in ConcOps :
        LET op == conc.ops[i] IN
        /\ op.pc = "d_unreg"
        /\ conc' = [conc EXCEPT
                      !.ops[i] = [op EXCEPT
                                    !.pc = "d_defer",
                                    !.paths = RemoveFirst(@, op.tempOutput)]]
    /\ UNCHANGED SeqVars

\* The deferred cleanup.Cleanup() of EncryptFile and DecryptFile.
ConcCleanup ==
    /\ \E i \in ConcOps :
        LET op == conc.ops[i]
            removed == ConcRemove(i, op.paths)
        IN
        /\ op.pc = "d_defer"
        /\ conc' = [conc EXCEPT
                      !.files = removed.files,
                      !.stolen = removed.stolen,
                      !.ops[i] = [op EXCEPT
                                    !.pc = IF op.kind = "play" THEN "p_return"
                                                               ELSE "done",
                                    !.paths = <<>>,
                                    !.using = @ \ RangeOf(op.paths)]]
    /\ UNCHANGED SeqVars

\* StreamVideo serves the scratch file and returns: its deferred os.Remove
\* calls run.
ConcPlayReturn ==
    /\ \E i \in ConcOps :
        LET op == conc.ops[i]
            removed == ConcRemove(i, op.deferred)
        IN
        /\ op.pc = "p_return"
        /\ conc' = [conc EXCEPT
                      !.files = removed.files,
                      !.stolen = removed.stolen,
                      !.ops[i] = [op EXCEPT !.pc = "done", !.using = {},
                                            !.deferred = <<>>]]
    /\ UNCHANGED SeqVars

NextConc ==
    \/ ConcPlayStart
    \/ ConcEncryptStart
    \/ ConcCreateTemp
    \/ ConcRename
    \/ ConcUnregister
    \/ ConcCleanup
    \/ ConcPlayReturn

SpecConc == InitConc /\ [][NextConc]_vars

\* ================================================================== claims
Returned == frame.pc = "done"

OutputFile == fs[Resolve(frame.outputPath)]

\* C1: no two Seal calls, of one file or of different files, use the same
\* (key, nonce) pair.
C1_NonceNeverReused == \A kn \in DOMAIN sealCount : sealCount[kn] <= 1

\* The decryption that has returned read an untampered file that EncryptFile
\* wrote under the same 32-byte key, and no I/O call of it failed.
CleanRoundTrip ==
    /\ Returned
    /\ frame.op = "decrypt"
    /\ frame.key.len = KeyLen
    /\ hist.inOrigin.kind = "enc"
    /\ hist.inOrigin.kid = frame.key.id
    /\ ~hist.inOrigin.tampered
    /\ ~hist.faulted

\* C2: decrypting, with the same key, what EncryptFile wrote succeeds and gives
\* back the plaintext, byte for byte, whatever its length.
C2_RoundTrip ==
    CleanRoundTrip =>
        /\ frame.result = "ok"
        /\ OutputFile.exists
        /\ OutputFile.data = hist.inOrigin.pt

\* C2 witness: a round trip of a file of two full blocks and a partial one.
C2_Witness ==
    /\ CleanRoundTrip
    /\ frame.result = "ok"
    /\ Len(hist.inOrigin.pt) = 2 * chunkSize + 1
    /\ OutputFile.data = hist.inOrigin.pt

\* The decryption that has returned read a file of EncryptFile in which one
\* byte of the ciphertext region had been changed.
TamperedInput ==
    /\ Returned
    /\ frame.op = "decrypt"
    /\ hist.inOrigin.kind = "enc"
    /\ hist.inOrigin.tampered

\* C3: DecryptFile returns an error for a file with one changed ciphertext
\* byte; it never succeeds with another plaintext.
C3_TamperDetected == TamperedInput => frame.result # "ok"

\* C3 witness: the right key, no I/O failure, a changed byte in a later block:
\* the call ends with the authentication error.
C3_Witness ==
    /\ TamperedInput
    /\ frame.key.len = KeyLen
    /\ hist.inOrigin.kid = frame.key.id
    /\ ~hist.faulted
    /\ hist.blocks >= 1
    /\ frame.result = "auth_error"

\* C4: once a block fails authentication the call returns an error, the output
\* path is left as it was, and the staged file is gone when the call returns.
C4_AuthFailureDiscards ==
    (frame.op = "decrypt" /\ frame.result = "auth_error") =>
        /\ frame.pc \in {"defer", "done"}
        /\ OutputFile = hist.destAtStart
        /\ Returned => \A q \in TempPaths : ~fs[q].exists

\* C4 witness: the failing block follows a block that was decrypted and
\* written to the staged file.
C4_Witness ==
    /\ Returned
    /\ frame.op = "decrypt"
    /\ frame.result = "auth_error"
    /\ hist.blocks >= 1
    /\ hist.registered # {}

\* C5: a call rejected for its key length has made no file system call.
C5_KeyRejectedBeforeTouch ==
    (frame.op # "none" /\ frame.key.len # KeyLen) =>
        /\ touched = {}
        /\ Returned => frame.result = "invalid_key"

\* C6: while EncryptFile runs and after it has returned, the destination is
\* what it was at the call or the complete output.
C6_DestinationAtomic ==
    (frame.op = "encrypt" /\ ~origin[Resolve(frame.outputPath)].tampered) =>
        \/ OutputFile = hist.destAtStart
        \/ /\ OutputFile.exists
           /\ OutputFile.data =
                CompleteOutput(frame.key, frame.nonce, hist.inAtStart.data)

\* C6 witness: a run that replaces an older ciphertext fails after it has
\* written blocks to the staged file; the destination is unchanged.
C6_Witness ==
    /\ Returned
    /\ frame.op = "encrypt"
    /\ frame.result = "io_error"
    /\ hist.blocks >= 1
    /\ hist.destAtStart.exists
    /\ OutputFile = hist.destAtStart

\* C7: when a call has returned, no temporary file it created or registered is
\* left at its path.
C7_CleanupOnReturn ==
    Returned => \A q \in hist.created \cup hist.registered : ~fs[q].exists

\* C7 witness: a call that failed after it had registered its temporary file.
C7_Witness ==
    /\ Returned
    /\ frame.result # "ok"
    /\ hist.registered # {}
    /\ hist.blocks >= 1

\* C8: a call with a relative path makes no file system call and returns the
\* invalid-path error.
C8_RelativePathRejected ==
    (frame.op # "none" /\ (~IsAbs(frame.inputPath) \/ ~IsAbs(frame.outputPath))) =>
        /\ touched = {}
        /\ Returned => frame.result = "invalid_path"

\* The request has been answered and no write to the client failed.
Served == stream.pc = "done" /\ ~stream.clientGone

\* C9: `bytes=0-0` on a body of S >= 1 bytes is answered with 206,
\* Content-Range `bytes 0-0/S`, Content-Length 1 and the first byte alone.
C9_EndZeroHonoured ==
    (Served /\ stream.req = [kind |-> "closed", a |-> 0, b |-> 0]
            /\ Len(stream.body) >= 1) =>
        /\ stream.status = StatusPartialContent
        /\ stream.contentRange = FormatContentRange(0, 0, Len(stream.body))
        /\ stream.contentLength = FormatInt(1)
        /\ stream.sent = <<stream.body[1]>>

\* C10: `bytes=a-b` with a > b, a < 0 or b >= S is answered with 416, and a
\* range that is served satisfies 0 <= start <= end < S.
C10_RangeValidated ==
    (stream.pc \in {"copyn", "return", "done"} /\ stream.req.kind = "closed") =>
        LET size == Len(stream.body)
            a == stream.req.a
            b == stream.req.b
            ranges == parseRange(stream.header, size)
        IN  /\ (a > b \/ a < 0 \/ b >= size) =>
                  stream.status = StatusRequestedRangeNotSatisfiable
            /\ ranges.ok => (0 <= ranges.start /\ ranges.start <= ranges.end
                                /\ ranges.end < size)

\* The Range header is present but is not `bytes=<start>-<end>` with a start.
MalformedRange == stream.req.kind \in {"nostart", "unit", "bare"}

\* C11: a malformed Range header is answered with 416 and never with a 206
\* partial response.
C11_MalformedRejected ==
    (stream.pc \in {"copyn", "return", "done"} /\ MalformedRange) =>
        stream.status = StatusRequestedRangeNotSatisfiable

\* The request asks for `bytes=a-b` with 0 <= a <= b < S.
ValidRange ==
    /\ stream.req.kind = "closed"
    /\ 0 <= stream.req.a
    /\ stream.req.a <= stream.req.b
    /\ stream.req.b < Len(stream.body)

\* C12: every valid range a-b on a body of S bytes is answered with 206,
\* Content-Range `bytes a-b/S`, Content-Length b-a+1 and exactly the bytes at
\* the offsets a..b, in order.
C12_ValidRangeServed ==
    (Served /\ ValidRange) =>
        LET a == stream.req.a
            b == stream.req.b
        IN  /\ stream.status = StatusPartialContent
            /\ stream.contentRange = FormatContentRange(a, b, Len(stream.body))
            /\ stream.contentLength = FormatInt(b - a + 1)
            /\ stream.sent = SubSeq(stream.body, a + 1, b + 1)

\* The request has no Range header and its headers have been set.
FullBody ==
    /\ stream.req.kind = "none"
    /\ stream.pc \in {"copy1", "copy2", "return", "done"}

\* C13: without a Range header the declared Content-Length is the size S of
\* the body, what has been written to the client is always a prefix of the
\* body (nothing is sent twice), and it is the whole body when the request
\* has been answered and no write failed.
C13_FullBodyOnce ==
    FullBody =>
        /\ stream.contentLength = FormatInt(Len(stream.body))
        /\ Len(stream.sent) <= Len(stream.body)
        /\ stream.sent = SubSeq(stream.body, 1, Len(stream.sent))
        /\ Served => stream.sent = stream.body

\* C13 witness: a body of several copy chunks has been sent whole, and both
\* copy calls have run.
C13_Witness ==
    /\ FullBody
    /\ Served
    /\ Len(stream.body) > CopyChunk
    /\ stream.sent = stream.body

\* C17: after a write to the client has failed the handler attempts no
\* further write of body data, with or without a Range header.
C17_NoWriteAfterFailure == stream.lateWrites = 0

\* The scratch files of a playback request: the two temp paths of the handler
\* and the staged files of DecryptFile.
ScratchPaths == {FirstTempPath, OutPath} \cup TempPaths

\* C14: when a playback request has returned, whatever its outcome, none of
\* its scratch files is left on disk.
C14_ScratchRemoved ==
    stream.pc = "done" => \A q \in ScratchPaths : ~fs[q].exists

\* C14 witness: the request decrypted its video to the scratch file, sent a
\* part of it, and returned after a write to the client had failed.
C14_Witness ==
    /\ stream.pc = "done"
    /\ hist.committed # <<>>
    /\ stream.clientGone
    /\ stream.sent # <<>>
    /\ \A q \in ScratchPaths : ~fs[q].exists

\* The DecryptFile call of the playback request has returned an error.
PlaybackDecryptFailed ==
    /\ stream.pc \notin {"none", "lookup", "mkdir", "prepare"}
    /\ frame.op = "decrypt"
    /\ Returned
    /\ frame.result # "ok"

\* C15: when DecryptFile has failed for a playback request, no body byte is
\* ever written to the client, the handler serves nothing and its response
\* is the error status.
C15_NoBytesOnDecryptFailure ==
    PlaybackDecryptFailed =>
        /\ stream.sent = <<>>
        /\ stream.pc \in {"decrypt", "return", "done"}
        /\ stream.pc # "decrypt" => stream.status = StatusInternalServerError

\* C15 witness: a later block of the file failed authentication after earlier
\* blocks had been decrypted, and the request was answered with the error.
C15_Witness ==
    /\ PlaybackDecryptFailed
    /\ stream.pc = "done"
    /\ frame.result = "auth_error"
    /\ hist.blocks >= 1
    /\ stream.status = StatusInternalServerError
    /\ stream.sent = <<>>

\* An error response has been written for the request.
ErrorReported ==
    stream.status \in {StatusNotFound, StatusInternalServerError,
                       StatusRequestedRangeNotSatisfiable}

\* C16: in no state has the error response been written while a scratch file
\* of the request still exists.
C16_CleanupBeforeReport ==
    ErrorReported => \A q \in ScratchPaths : ~fs[q].exists

\* The input of the DecryptFile call is a file cut off inside its nonce.
ShortInput == frame.op = "decrypt" /\ hist.inOrigin.kind = "short"

\* C19: DecryptFile on a file shorter than the nonce never succeeds, returns
\* an error, and leaves the output path as it was at the call.
C19_ShortInputFails ==
    ShortInput =>
        /\ frame.result # "ok"
        /\ Returned => frame.result # "none"
        /\ stream.pc = "decrypt" => OutputFile = hist.destAtStart

\* C19 witness: a file that holds a part of the nonce, no injected failure:
\* the call has returned the read error.
C19_Witness ==
    /\ ShortInput
    /\ Returned
    /\ stream.pc = "decrypt"
    /\ ~hist.faulted
    /\ Len(hist.inAtStart.data) = NonceSize - 1
    /\ frame.result = "io_error"
    /\ OutputFile = hist.destAtStart

\* The delete request has been answered, and its os.Remove had failed.
UnlinkFailed == stream.pc = "done" /\ stream.unlinkErr

\* C18: when the unlink of the encrypted file fails, the metadata record is
\* deleted all the same (unless the DELETE statement itself fails), and the
\* failure is reported: in the response or in the log.
C18_UnlinkFailureReported ==
    UnlinkFailed =>
        /\ stream.status # StatusInternalServerError => VideoId \notin db
        /\ stream.status # StatusOK \/ log # {}

\* C20: no two operations in flight use the same scratch or temporary path,
\* and no operation has removed or replaced a file that another operation in
\* flight had created.
C20_ScratchExclusive ==
    /\ \A i, j \in ConcOps :
          (i # j /\ InFlight(i) /\ InFlight(j)) =>
              conc.ops[i].using \cap conc.ops[j].using = {}
    /\ \A i \in ConcOps :
          InFlight(i) => \A q \in conc.ops[i].using : conc.files[q] = i
    /\ ~conc.stolen

\* C20 witness: an operation has created its staged file under the name that
\* another operation in flight has renamed away and still has registered.
C20_Witness ==
    \E i, j \in ConcOps :
        /\ i # j
        /\ InFlight(i)
        /\ InFlight(j)
        /\ conc.ops[i].pc = "d_unreg"
        /\ conc.ops[j].tempOutput = conc.ops[i].tempOutput
        /\ conc.ops[j].tempOutput \in conc.ops[j].using

\* ------------------------------------------------------------------ uploads
UploadReturned == stream.pc = "done"

\* C21: once UploadVideo has created the raw upload file, the file is gone
\* when the handler has returned, whatever the path of the return: failed
\* copy, key of the wrong length, failed encryption, failed metadata insert or
\* success.
C21_RawUploadRemoved ==
    (UploadReturned /\ stream.rawCreated) => ~fs[PlainPath].exists

\* An upload whose raw file was written has returned after EncryptFile failed.
C21_Witness ==
    /\ UploadReturned
    /\ stream.rawCreated
    /\ stream.status = StatusInternalServerError
    /\ frame.pc = "done"
    /\ frame.result = "io_error"
    /\ ~fs[PlainPath].exists

\* ------------------------------------------------------------ block framing
\* The blocks of the running call that did not run up to the end of its input.
InnerBlocks == {i \in 1..Len(hist.sizes) : ~hist.sizes[i].last}

\* C22: every plaintext block EncryptFile seals, except the last of the file,
\* has chunkSize bytes, and every ciphertext block DecryptFile opens, except
\* the last of the file, has chunkSize + Overhead bytes, also where a read
\* returns fewer bytes than were asked for.
C22_BlockFraming ==
    /\ frame.op = "encrypt" => \A i \in InnerBlocks : hist.sizes[i].n = chunkSize
    /\ frame.op = "decrypt" =>
           \A i \in InnerBlocks : hist.sizes[i].n = chunkSize + Overhead

\* ------------------------------------------------- ordering in EncryptFile
RECURSIVE WrittenBlocks(_, _, _, _)
\* The sealed blocks of the input `data`, cut as `sizes` says, in input order.
WrittenBlocks(key, nonce, data, sizes) ==
    IF sizes = <<>> THEN <<>>
    ELSE Seal(key, nonce, SubSeq(data, 1, Head(sizes).n))
            \o WrittenBlocks(key, nonce,
                             SubSeq(data, Head(sizes).n + 1, Len(data)),
                             Tail(sizes))

\* What the running EncryptFile call must have written once `hist.blocks`
\* blocks are out: the nonce, then the blocks in input order.
StagedSoFar ==
    frame.nonce \o WrittenBlocks(frame.key, frame.nonce,
                                 fs[Resolve(frame.inputPath)].data,
                                 SubSeq(hist.sizes, 1, hist.blocks))

\* The rename of the running call has just been made.
Renamed == frame.pc = "defer" /\ hist.committed # <<>>

\* C23: in an EncryptFile run no block is written before the nonce, the staged
\* file holds the nonce and then the sealed blocks in input order, and the
\* rename is made only after the last block is written, in a run in which no
\* earlier step has failed.
C23_EncryptOrdering ==
    frame.op = "encrypt" =>
        /\ frame.pc \in {"e_key", "e_valin", "e_valout", "e_openin", "e_mkdir",
                         "e_openout", "e_chmod", "e_nonce"} =>
               /\ hist.blocks = 0
               /\ fs[frame.tempOutput].data = <<>>
        /\ frame.pc \in {"e_loop", "e_rename"} =>
               fs[frame.tempOutput].data = StagedSoFar
        /\ Renamed =>
               /\ frame.inOff = Len(fs[Resolve(frame.inputPath)].data)
               /\ fs[Resolve(frame.outputPath)].data = StagedSoFar
        /\ hist.committed # <<>> => (frame.result = "ok" /\ ~hist.faulted)
        /\ (frame.pc \in {"defer", "done"} /\ frame.result # "ok") =>
               hist.committed = <<>>

\* An EncryptFile run has renamed a file of three blocks.
C23_Witness ==
    /\ frame.op = "encrypt"
    /\ Renamed
    /\ hist.blocks = 3
    /\ fs[Resolve(frame.outputPath)].data = StagedSoFar

\* ------------------------------------------------------- open-ended ranges
\* C24: `bytes=a-` on a body of S bytes is answered with 206 and exactly the
\* bytes a..S-1 when 0 <= a < S, and with 416 when a >= S.
C24_OpenRangeServed ==
    (stream.req.kind = "open" /\ stream.pc \in {"copyn", "return", "done"}) =>
        LET a == stream.req.a
            size == Len(stream.body)
        IN  /\ a >= size => stream.status = StatusRequestedRangeNotSatisfiable
            /\ (a < size /\ Served) =>
                  /\ stream.status = StatusPartialContent
                  /\ stream.sent = SubSeq(stream.body, a + 1, size)

\* ------------------------------------------------ upload: file and record
\* C25: when UploadVideo has returned, the encrypted file of the upload is at
\* its destination if and only if the metadata record of the video was
\* inserted.
C25_FileIffRecord ==
    UploadReturned => (fs[EncPath].exists <=> VideoId \in db)

\* An upload has returned after its ciphertext was renamed into place and the
\* insert of its record failed: the ciphertext is gone again.
C25_Witness ==
    /\ UploadReturned
    /\ hist.committed # <<>>
    /\ frame.result = "ok"
    /\ stream.status = StatusInternalServerError
    /\ VideoId \notin db
    /\ ~fs[EncPath].exists

============================================================================
